---- MODULE Spec2Model ----
(***************************************************************************)
(* venom: typed messages, field descriptors, converters and the JSON wire  *)
(* codec.  Python values are modelled as tagged records; the codec, the    *)
(* field descriptors and the helpers are operators translated from         *)
(* venom/fields.py and venom/serialization/__init__.py.                    *)
(***************************************************************************)
EXTENDS Integers, Sequences, FiniteSets, TLC

VARIABLES
    pc,        \* which operation ran last
    msg,       \* the message instance under construction / under test
    tree,      \* a wire value tree (the output of encode, or a decode input)
    res,       \* the outcome of the last codec / validator / helper call
    validator, \* the validator_cls the JSON codec was constructed with
    heap,      \* list objects: identity -> current contents
    store,     \* message instance -> (field name -> stored value or list identity)
    views,     \* the _RepeatValueProxy objects handed out so far
    plain,     \* message instance -> the same operations applied to a plain list
    touched,   \* message instances on which a view mutation was attempted
    last,      \* field name -> the native value last assigned to a ConverterField
    raw,       \* the byte buffer given to unpack
    decls,     \* the fields declared so far through Repeat / Map
    descriptor, \* a Field instance shared by threads: its _type and its __dict__
    frames     \* thread -> the locals of its call of Field.type

vars == <<pc, msg, tree, res, validator, heap, store, views, plain, touched, last,
          raw, decls, descriptor, frames>>

----------------------------------------------------------------------------
(* Python values *)

NoneV == [t |-> "none"]
BoolV(b) == [t |-> "bool", b |-> b]
StrV(s) == [t |-> "str", s |-> s]
ListV(s) == [t |-> "list", l |-> s]
DictV(f) == [t |-> "dict", v |-> f]
MsgV(cls, f) == [t |-> "msg", cls |-> cls, v |-> f]
Raise(exc, by) == [t |-> "raise", exc |-> exc, by |-> by]
IsRaise(r) == r.t = "raise"

EmptyMap == [k \in {} |-> NoneV]
Map1(k, x) == [a \in {k} |-> x]
Map2(k1, x1, k2, x2) == [a \in {k1, k2} |-> IF a = k1 THEN x1 ELSE x2]
Map3(k1, x1, k2, x2, k3, x3) ==
    [a \in {k1, k2, k3} |-> IF a = k1 THEN x1 ELSE IF a = k2 THEN x2 ELSE x3]
MapPut(f, k, x) == [a \in DOMAIN f \cup {k} |-> IF a = k THEN x ELSE f[a]]
MapDrop(f, ks) == [a \in DOMAIN f \ ks |-> f[a]]

SetMin(S) == CHOOSE i \in S : \A j \in S : i <= j

(* A Python int is unbounded; it is kept as two limbs, hi * Limb + lo, so   *)
(* that integers on both sides of 2^53 are representable.                  *)
DoubleMantissaBits == 53
Limb == 2 ^ 27
(* The high limb of 2^53. *)
HiExact == 2 ^ (DoubleMantissaBits - 27)
IntV2(hi, lo) == [t |-> "int", hi |-> hi, lo |-> lo]
IntV(n) == IntV2(0, n)
(* A Python float (IEEE double) holding an integer, or an integer and a half. *)
FloatV2(hi, lo, half) == [t |-> "float", hi |-> hi, lo |-> lo, half |-> half]
FloatV(n) == FloatV2(0, n, 0)
FloatHalf(n) == FloatV2(0, n, 1)

IsNum(a) == a.t \in {"int", "float"}
NumHalf(a) == IF a.t = "float" THEN a.half ELSE 0

(* float(n) for a non-negative int n < 2^54: exact below 2^53; from 2^53 on *)
(* doubles are 2 apart and an odd n is a tie, rounded to the even mantissa. *)
PyFloat(i) ==
    IF i.hi < HiExact \/ i.lo % 2 = 0
    THEN FloatV2(i.hi, i.lo, 0)
    ELSE IF ((i.lo - 1) \div 2) % 2 = 0
         THEN FloatV2(i.hi, i.lo - 1, 0)
         ELSE IF i.lo + 1 = Limb
              THEN FloatV2(i.hi + 1, 0, 0)
              ELSE FloatV2(i.hi, i.lo + 1, 0)

(* Python ==: numbers compare by value across int and float (bool is kept   *)
(* apart here), containers compare elementwise, messages by type and store. *)
RECURSIVE PyEq(_, _)
PyEq(a, b) ==
    IF IsNum(a) /\ IsNum(b)
    THEN a.hi = b.hi /\ a.lo = b.lo /\ NumHalf(a) = NumHalf(b)
    ELSE IF a.t # b.t THEN FALSE
    ELSE CASE a.t = "none" -> TRUE
           [] a.t = "list" ->
                /\ Len(a.l) = Len(b.l)
                /\ \A i \in 1..Len(a.l) : PyEq(a.l[i], b.l[i])
           [] a.t = "dict" ->
                /\ DOMAIN a.v = DOMAIN b.v
                /\ \A k \in DOMAIN a.v : PyEq(a.v[k], b.v[k])
           [] a.t = "msg" ->
                /\ a.cls = b.cls
                /\ DOMAIN a.v = DOMAIN b.v
                /\ \A k \in DOMAIN a.v : PyEq(a.v[k], b.v[k])
           [] OTHER -> a = b

----------------------------------------------------------------------------
(* Strings are sequences of one-character strings, so that int() and str()  *)
(* are computed digit by digit.                                             *)

Digits == <<"0", "1", "2", "3", "4", "5", "6", "7", "8", "9">>
IsDigit(c) == \E d \in 1..10 : Digits[d] = c
DigitVal(c) == (CHOOSE d \in 1..10 : Digits[d] = c) - 1

RECURSIVE ParseDigits(_)
ParseDigits(s) ==
    IF s = <<>> THEN 0
    ELSE 10 * ParseDigits(SubSeq(s, 1, Len(s) - 1)) + DigitVal(s[Len(s)])

RECURSIVE FormatDigits(_)
FormatDigits(n) ==
    IF n < 10 THEN <<Digits[n + 1]>>
    ELSE Append(FormatDigits(n \div 10), Digits[(n % 10) + 1])

(* int(value): a decimal string is parsed, an int is returned as it is.     *)
PyInt(value) ==
    CASE value.t = "int" -> value
      [] value.t = "str" ->
            IF value.s # <<>> /\ \A i \in 1..Len(value.s) : IsDigit(value.s[i])
            THEN IntV(ParseDigits(value.s))
            ELSE Raise("ValueError", "int")
      [] OTHER -> Raise("TypeError", "int")

(* str(value) of a small non-negative int.                                  *)
PyStr(value) ==
    CASE value.t = "str" -> value
      [] value.t = "int" /\ value.hi = 0 -> StrV(FormatDigits(value.lo))
      [] OTHER -> Raise("TypeError", "str")

----------------------------------------------------------------------------
(* Field descriptors (venom/fields.py) *)

Field(attribute, type, optional) ==
    [kind |-> "Field", attribute |-> attribute, type |-> type, optional |-> optional]
RepeatField(attribute, items, optional) ==
    [kind |-> "RepeatField", attribute |-> attribute, items |-> items,
     optional |-> optional]
MapField(attribute, values, optional) ==
    [kind |-> "MapField", attribute |-> attribute, values |-> values,
     optional |-> optional]

ConverterWire(converter) ==
    IF converter = "StringConverter" THEN "int" ELSE "Timestamp"

ConverterField(attribute, converter, optional) ==
    [kind |-> "ConverterField", attribute |-> attribute, converter |-> converter,
     type |-> ConverterWire(converter), optional |-> optional]

ScalarTypes == {"bool", "int", "float", "str", "bytes"}
FloatTypes == {"float", "float32", "float64"}

(* type(): the zero value of a scalar type, an empty instance of a message type. *)
TypeZero(type) ==
    CASE type = "int" -> IntV(0)
      [] type = "float" -> FloatV(0)
      [] type = "bool" -> BoolV(FALSE)
      [] type \in {"str", "bytes"} -> StrV(<<>>)
      [] OTHER -> MsgV(type, EmptyMap)

(* FieldDescriptor.default is None; Field.default is type() (no explicit default). *)
FieldDefault(field) ==
    IF field.kind \in {"Field", "ConverterField"} THEN TypeZero(field.type) ELSE NoneV

----------------------------------------------------------------------------
(* The message types used below, fields in declaration order. *)

MessageTypes ==
    {"Timestamp", "Inner", "Scalars", "Nested", "Floats", "Groups", "Conv",
     "HelloRepeat", "HelloRequest", "HelloBoth", "Point"}

Fields(cls) ==
    CASE cls = "Timestamp" ->
            <<Field("seconds", "int", TRUE), Field("nanos", "int", TRUE)>>
      [] cls = "Inner" ->
            <<Field("n", "int", FALSE), Field("f", "float", TRUE)>>
      [] cls = "Scalars" ->
            <<Field("id", "int", FALSE), Field("x", "float", TRUE),
              Field("s", "str", TRUE)>>
      [] cls = "Nested" ->
            <<Field("inner", "Inner", FALSE), Field("tag", "str", TRUE)>>
      [] cls = "Floats" ->
            <<RepeatField("xs", Field("", "float", TRUE), TRUE),
              MapField("fm", Field("", "float", TRUE), TRUE)>>
      [] cls = "Groups" ->
            <<RepeatField("rs", Field("", "Inner", TRUE), TRUE),
              MapField("im", Field("", "Inner", TRUE), TRUE)>>
      [] cls = "Conv" ->
            <<ConverterField("c", "StringConverter", TRUE),
              ConverterField("d", "DateTimeConverter", TRUE)>>
      [] cls = "HelloRepeat" ->
            <<RepeatField("names", Field("", "str", TRUE), TRUE)>>
      [] cls = "Point" ->
            <<Field("n", "int", TRUE)>>
      [] cls = "HelloRequest" ->
            <<Field("name", "str", TRUE)>>
      [] cls = "HelloBoth" ->
            <<Field("name", "str", TRUE),
              RepeatField("names", Field("", "str", TRUE), TRUE)>>

FieldNames(cls) == {Fields(cls)[i].attribute : i \in 1..Len(Fields(cls))}
FieldOf(cls, name) ==
    Fields(cls)[CHOOSE i \in 1..Len(Fields(cls)) : Fields(cls)[i].attribute = name]

(* Message.get(name): the stored value, else the field's default. *)
MessageGet(m, name) ==
    IF name \in DOMAIN m.v THEN m.v[name] ELSE FieldDefault(FieldOf(m.cls, name))

----------------------------------------------------------------------------
(* Converters *)

MicrosPerSecond == 10 ^ 6
NanosPerMicro == 10 ^ 3
DateTimeV(us) == [t |-> "datetime", us |-> us]

(* tests/common/test_converters.py StringConverter: format = int, resolve = str; *)
(* DateTimeConverter: datetime <-> Timestamp(seconds, nanos).                    *)
ConverterFormat(converter, value) ==
    IF converter = "StringConverter" THEN PyInt(value)
    ELSE IF value.t = "datetime"
         THEN MsgV("Timestamp",
                   Map2("seconds", IntV(value.us \div MicrosPerSecond),
                        "nanos", IntV((value.us % MicrosPerSecond) * NanosPerMicro)))
         ELSE Raise("AttributeError", "format")

ConverterResolve(converter, value) ==
    IF converter = "StringConverter" THEN PyStr(value)
    ELSE IF value.t = "msg" /\ value.cls = "Timestamp"
         THEN DateTimeV(MessageGet(value, "seconds").lo * MicrosPerSecond
                        + MessageGet(value, "nanos").lo \div NanosPerMicro)
         ELSE Raise("AttributeError", "resolve")

ConverterConvert(converter, value) == ConverterResolve(converter, value)

----------------------------------------------------------------------------
(* The JSON wire codec (venom/serialization/__init__.py) *)

HasFields(cls) == cls \in MessageTypes

(* The outcome of a comprehension: the first element that raised, else the  *)
(* collected values.                                                        *)
FirstRaise(outs) ==
    LET bad == {i \in DOMAIN outs : IsRaise(outs[i])}
    IN  IF bad = {} THEN NoneV ELSE outs[SetMin(bad)]

AnyRaise(f) ==
    LET bad == {k \in DOMAIN f : IsRaise(f[k])}
    IN  IF bad = {} THEN NoneV ELSE f[CHOOSE k \in bad : TRUE]

RECURSIVE JSON_encode(_, _), JSON_encode_field(_, _)

JSON_encode(message, cls) ==
    LET c == IF cls = "" THEN message.cls ELSE cls
    IN  IF ~HasFields(c) THEN Raise("AttributeError", "encode")
        ELSE LET fs == Fields(c)
                 present == {i \in 1..Len(fs) : fs[i].attribute \in DOMAIN message.v}
                 outs == [i \in present |->
                            JSON_encode_field(message.v[fs[i].attribute], fs[i])]
             IN  IF IsRaise(FirstRaise(outs)) THEN FirstRaise(outs)
                 ELSE DictV([a \in {fs[i].attribute : i \in present} |->
                              outs[CHOOSE i \in present : fs[i].attribute = a]])

JSON_encode_field(value, field) ==
    IF value.t = "none" THEN NoneV
    ELSE CASE field.kind = "RepeatField" ->
                LET outs == [i \in 1..Len(value.l) |->
                                JSON_encode_field(value.l[i], field.items)]
                IN  IF IsRaise(FirstRaise(outs)) THEN FirstRaise(outs) ELSE ListV(outs)
           [] field.kind = "MapField" ->
                LET outs == [k \in DOMAIN value.v |->
                                JSON_encode_field(value.v[k], field.values)]
                IN  IF IsRaise(AnyRaise(outs)) THEN AnyRaise(outs) ELSE DictV(outs)
           [] field.kind = "ConverterField" ->
                LET wire == ConverterFormat(field.converter, value)
                IN  IF IsRaise(wire) THEN wire
                    ELSE JSON_encode(wire, ConverterWire(field.converter))
           [] field.kind = "Field" /\ HasFields(field.type) ->
                JSON_encode(value, field.type)
           [] OTHER -> value

(* JSONSchemaValidator.validate: required fields present, kinds compatible,  *)
(* unknown keys ignored.                                                     *)
RECURSIVE SchemaOk(_, _), SchemaFieldOk(_, _)

SchemaOk(instance, cls) ==
    IF ~HasFields(cls) THEN instance.t = cls
    ELSE /\ instance.t = "dict"
         /\ \A i \in 1..Len(Fields(cls)) :
               LET field == Fields(cls)[i]
               IN  IF field.attribute \in DOMAIN instance.v
                   THEN SchemaFieldOk(instance.v[field.attribute], field)
                   ELSE field.optional

SchemaFieldOk(instance, field) ==
    IF instance.t = "none" THEN TRUE
    ELSE CASE field.kind = "RepeatField" ->
                /\ instance.t = "list"
                /\ \A i \in 1..Len(instance.l) : SchemaFieldOk(instance.l[i], field.items)
           [] field.kind = "MapField" ->
                /\ instance.t = "dict"
                /\ \A k \in DOMAIN instance.v : SchemaFieldOk(instance.v[k], field.values)
           [] field.type \in FloatTypes -> instance.t \in {"int", "float"}
           [] OTHER -> SchemaOk(instance, field.type)

Validators == {"JSONSchemaValidator", "AcceptAll"}

ValidatorValidate(instance, cls) ==
    IF validator = "JSONSchemaValidator" /\ ~SchemaOk(instance, cls)
    THEN Raise("ValidationError", "validate")
    ELSE NoneV

RECURSIVE JSON__decode(_, _), JSON_decode(_, _), JSON_decode_field(_, _)

(* _decode without the required-field check: an absent field is skipped.  *)
JSON__decode_SkipMissing(instance, cls) ==
    IF ~HasFields(cls) THEN Raise("AttributeError", "_decode")
    ELSE IF instance.t # "dict" THEN Raise("TypeError", "_decode")
    ELSE LET fs == Fields(cls)
             present == {i \in 1..Len(fs) : fs[i].attribute \in DOMAIN instance.v}
             outs == [i \in present |->
                        JSON_decode_field(instance.v[fs[i].attribute], fs[i])]
         IN  IF IsRaise(FirstRaise(outs)) THEN FirstRaise(outs)
             ELSE MsgV(cls, [a \in {fs[i].attribute : i \in present} |->
                               outs[CHOOSE i \in present : fs[i].attribute = a]])

(* _decode that rejects a key that is no declared field.                  *)
JSON__decode_RejectUnknown(instance, cls) ==
    IF ~HasFields(cls) THEN Raise("AttributeError", "_decode")
    ELSE IF instance.t # "dict" THEN Raise("TypeError", "_decode")
    ELSE IF ~(DOMAIN instance.v \subseteq FieldNames(cls))
    THEN Raise("ValueError", "_decode")
    ELSE JSON__decode_SkipMissing(instance, cls)

JSON__decode(instance, cls) ==
    IF ~HasFields(cls) THEN Raise("AttributeError", "_decode")
    ELSE IF instance.t # "dict" THEN Raise("TypeError", "_decode")
    ELSE LET fs == Fields(cls)
             outs == [i \in 1..Len(fs) |->
                        IF fs[i].attribute \notin DOMAIN instance.v
                        THEN IF ~fs[i].optional
                             THEN Raise("ValueError", "_decode")
                             ELSE NoneV
                        ELSE JSON_decode_field(instance.v[fs[i].attribute], fs[i])]
             present == {i \in 1..Len(fs) : fs[i].attribute \in DOMAIN instance.v}
         IN  IF IsRaise(FirstRaise(outs)) THEN FirstRaise(outs)
             ELSE MsgV(cls, [a \in {fs[i].attribute : i \in present} |->
                               outs[CHOOSE i \in present : fs[i].attribute = a]])

JSON_decode(instance, cls) ==
    IF IsRaise(ValidatorValidate(instance, cls))
    THEN ValidatorValidate(instance, cls)
    ELSE JSON__decode(instance, cls)

(* decode_field without the int -> float conversion.                      *)
JSON_decode_field_NoWiden(instance, field) ==
    IF instance.t = "none" THEN NoneV
    ELSE CASE field.kind = "RepeatField" ->
                LET outs == [i \in 1..Len(instance.l) |->
                                JSON_decode_field(instance.l[i], field.items)]
                IN  IF IsRaise(FirstRaise(outs)) THEN FirstRaise(outs) ELSE ListV(outs)
           [] field.kind = "MapField" ->
                IF instance.t # "dict" THEN Raise("AssertionError", "decode_field")
                ELSE LET outs == [k \in DOMAIN instance.v |->
                                     JSON_decode_field(instance.v[k], field.values)]
                     IN  IF IsRaise(AnyRaise(outs)) THEN AnyRaise(outs) ELSE DictV(outs)
           [] field.kind = "ConverterField" ->
                LET wire == JSON_decode(instance, ConverterWire(field.converter))
                IN  IF IsRaise(wire) THEN wire
                    ELSE ConverterConvert(field.converter, wire)
           [] field.kind = "Field" /\ HasFields(field.type) ->
                JSON_decode(instance, field.type)
           [] OTHER -> instance

JSON_decode_field(instance, field) ==
    IF instance.t = "none" THEN NoneV
    ELSE CASE field.kind = "RepeatField" ->
                LET outs == [i \in 1..Len(instance.l) |->
                                JSON_decode_field(instance.l[i], field.items)]
                IN  IF IsRaise(FirstRaise(outs)) THEN FirstRaise(outs) ELSE ListV(outs)
           [] field.kind = "MapField" ->
                IF instance.t # "dict" THEN Raise("AssertionError", "decode_field")
                ELSE LET outs == [k \in DOMAIN instance.v |->
                                     JSON_decode_field(instance.v[k], field.values)]
                     IN  IF IsRaise(AnyRaise(outs)) THEN AnyRaise(outs) ELSE DictV(outs)
           [] field.kind = "ConverterField" ->
                LET wire == JSON_decode(instance, ConverterWire(field.converter))
                IN  IF IsRaise(wire) THEN wire
                    ELSE ConverterConvert(field.converter, wire)
           [] field.kind = "Field" /\ HasFields(field.type) ->
                JSON_decode(instance, field.type)
           [] field.kind = "Field" /\ instance.t = "int" /\ field.type \in FloatTypes ->
                PyFloat(instance)
           [] OTHER -> instance

----------------------------------------------------------------------------
(* Field descriptors on an instance: attribute assignment and read. *)

(* FieldDescriptor.__set__ stores the value as given; ConverterField.__set__ *)
(* stores converter.format(value).  A raising format leaves the store alone.  *)
FieldDescriptor__set__(instance, field, value) ==
    MsgV(instance.cls, MapPut(instance.v, field.attribute, value))

(* __set__ that stores the native value as given.                          *)
ConverterField__set__NoFormat(instance, field, value) ==
    IF IsRaise(ConverterFormat(field.converter, value))
    THEN ConverterFormat(field.converter, value)
    ELSE MsgV(instance.cls, MapPut(instance.v, field.attribute, value))

ConverterField__set__(instance, field, value) ==
    LET wire == ConverterFormat(field.converter, value)
    IN  IF IsRaise(wire) THEN wire
        ELSE MsgV(instance.cls, MapPut(instance.v, field.attribute, wire))

SetAttr(instance, field, value) ==
    IF field.kind = "ConverterField"
    THEN ConverterField__set__(instance, field, value)
    ELSE FieldDescriptor__set__(instance, field, value)

(* FieldDescriptor.__get__: the stored value, else default().                *)
FieldDescriptor__get__(instance, field) ==
    IF field.attribute \in DOMAIN instance.v
    THEN instance.v[field.attribute]
    ELSE FieldDefault(field)

(* ConverterField.__get__: converter.convert(instance.get(name)).            *)
ConverterField__get__(instance, field) ==
    ConverterConvert(field.converter, MessageGet(instance, field.attribute))

----------------------------------------------------------------------------
(* The bounded inputs: values assigned to fields, and decode input trees. *)

MaxItems == 2

BigOdd == IntV2(HiExact, 1)       \* 2^53 + 1, a tie rounded down to 2^53
BigOddUp == IntV2(HiExact, 3)     \* 2^53 + 3, a tie rounded up to 2^53 + 4
BigEven == IntV2(HiExact, 2)      \* 2^53 + 2, a double

RECURSIVE SeqsUpTo(_, _)
SeqsUpTo(S, n) ==
    IF n = 0 THEN {<<>>}
    ELSE SeqsUpTo(S, n - 1)
         \cup {Append(q, x) : q \in {r \in SeqsUpTo(S, n - 1) : Len(r) = n - 1}, x \in S}

MapsOver(K, S) == UNION {[D -> S] : D \in SUBSET K}

MapKeysFor(field) == IF HasFields(field.type) THEN {"a"} ELSE {"a", "b"}

UnknownKey == "zz"

(* mode "tree": wire values as a client may send them (unknown keys, missing  *)
(* keys, ints for floats); mode "inst": values a program assigns to fields.   *)
RECURSIVE ValuesOf(_, _), StoresUpTo(_, _, _)

ScalarsOf(type, mode) ==
    CASE type = "int" -> {IntV(3)}
      [] type = "float" ->
            IF mode = "tree" THEN {IntV(3), BigOdd} ELSE {IntV(3), FloatHalf(1)}
      [] type = "str" -> {StrV(<<"x">>)}
      [] OTHER -> {BoolV(TRUE)}

StoresUpTo(cls, i, mode) ==
    IF i = 0 THEN {EmptyMap}
    ELSE LET field == Fields(cls)[i]
             prev == StoresUpTo(cls, i - 1, mode)
         IN  prev \cup {MapPut(f, field.attribute, x) :
                           f \in prev, x \in ValuesOf(field, mode)}

ObjectsOf(cls, mode) ==
    LET stores == StoresUpTo(cls, Len(Fields(cls)), mode)
    IN  IF mode = "tree"
        THEN {DictV(f) : f \in stores}
             \cup {DictV(MapPut(f, UnknownKey, IntV(1))) : f \in stores}
        ELSE {MsgV(cls, f) : f \in stores}

ValuesOf(field, mode) ==
    CASE field.kind = "RepeatField" ->
            {ListV(q) : q \in SeqsUpTo(ValuesOf(field.items, mode), MaxItems)}
      [] field.kind = "MapField" ->
            {DictV(f) : f \in MapsOver(MapKeysFor(field.values),
                                       ValuesOf(field.values, mode))}
      [] field.kind = "ConverterField" /\ mode = "inst" ->
            IF field.converter = "StringConverter"
            THEN {StrV(<<"4", "2">>), StrV(<<"0", "7">>), StrV(<<"x">>)}
            ELSE {DateTimeV(0), DateTimeV(2 * MicrosPerSecond + 5)}
      [] field.kind = "ConverterField" /\ mode = "tree" ->
            IF field.converter = "StringConverter"
            THEN {IntV(42)}
            ELSE ObjectsOf("Timestamp", "tree")
      [] HasFields(field.type) -> ObjectsOf(field.type, mode)
      [] OTHER -> ScalarsOf(field.type, mode)

TopClasses == {"Scalars", "Nested", "Floats", "Groups", "Conv"}

(* Values for one top-level field: the scalars get the wider choice. *)
TopValuesOf(cls, field, mode) ==
    IF cls = "Scalars" /\ field.type = "float" /\ mode = "tree"
    THEN {IntV(3), BigOdd, BigOddUp, BigEven, FloatHalf(1), FloatV(3), NoneV}
    ELSE IF cls = "Scalars" /\ field.type = "str" /\ mode = "tree"
    THEN {StrV(<<"x">>), IntV(7), BoolV(TRUE)}
    ELSE IF cls = "Scalars" /\ mode = "inst"
    THEN ValuesOf(field, mode) \cup {NoneV}
    ELSE ValuesOf(field, mode)

RECURSIVE TopStoresUpTo(_, _, _)
TopStoresUpTo(cls, i, mode) ==
    IF i = 0 THEN {EmptyMap}
    ELSE LET field == Fields(cls)[i]
             prev == TopStoresUpTo(cls, i - 1, mode)
         IN  prev \cup {MapPut(f, field.attribute, x) :
                           f \in prev, x \in TopValuesOf(cls, field, mode)}

InputTrees(cls) ==
    LET stores == TopStoresUpTo(cls, Len(Fields(cls)), "tree")
    IN  {DictV(f) : f \in stores}
        \cup {DictV(MapPut(f, UnknownKey, IntV(1))) : f \in stores}

----------------------------------------------------------------------------
(* The codec on messages built by attribute assignment, and on input trees. *)

Idle == <<>>

CodecInit ==
    /\ pc = "new"
    /\ msg \in {MsgV(cls, EmptyMap) : cls \in TopClasses}
    /\ tree = NoneV
    /\ res = NoneV
    /\ validator \in Validators
    /\ heap = Idle /\ store = Idle /\ views = Idle /\ plain = Idle
    /\ touched = Idle /\ last = Idle /\ raw = Idle /\ decls = Idle
    /\ descriptor = Idle /\ frames = Idle

(* message.<field> = value *)
CodecSetAttr ==
    /\ pc \in {"new", "set"}
    /\ \E i \in 1..Len(Fields(msg.cls)) :
         \E value \in TopValuesOf(msg.cls, Fields(msg.cls)[i], "inst") :
            LET out == SetAttr(msg, Fields(msg.cls)[i], value)
            IN  /\ msg' = IF IsRaise(out) THEN msg ELSE out
                /\ res' = IF IsRaise(out) THEN out ELSE NoneV
    /\ pc' = "set"
    /\ UNCHANGED <<tree, validator, heap, store, views, plain, touched, last,
                   raw, decls,
                   descriptor, frames>>

(* tree = JSON().encode(message) *)
CodecEncode ==
    /\ pc \in {"new", "set"}
    /\ tree' = JSON_encode(msg, "")
    /\ res' = NoneV
    /\ pc' = "encoded"
    /\ UNCHANGED <<msg, validator, heap, store, views, plain, touched, last,
                   raw, decls,
                   descriptor, frames>>

(* JSON().decode(tree, type(message)) on the tree encode returned *)
CodecDecodeBack ==
    /\ pc = "encoded"
    /\ ~IsRaise(tree)
    /\ res' = JSON_decode(tree, msg.cls)
    /\ pc' = "roundtrip"
    /\ UNCHANGED <<msg, tree, validator, heap, store, views, plain, touched, last,
                   raw, decls,
                   descriptor, frames>>

(* JSON().decode(x, T) on an input tree x *)
CodecDecodeInput ==
    /\ pc = "new"
    /\ \E x \in InputTrees(msg.cls) :
          /\ tree' = x
          /\ res' = JSON_decode(x, msg.cls)
    /\ pc' = "decoded"
    /\ UNCHANGED <<msg, validator, heap, store, views, plain, touched, last,
                   raw, decls,
                   descriptor, frames>>

CodecNext == CodecSetAttr \/ CodecEncode \/ CodecDecodeBack \/ CodecDecodeInput

SpecCodec == CodecInit /\ [][CodecNext]_vars

----------------------------------------------------------------------------
(* Claims about the codec *)

RECURSIVE RequiredSet(_), RequiredSetField(_, _)
(* Every required field of message m, and of the messages inside it, is stored. *)
RequiredSet(m) ==
    \A i \in 1..Len(Fields(m.cls)) :
        LET field == Fields(m.cls)[i]
        IN  IF field.attribute \in DOMAIN m.v
            THEN RequiredSetField(m.v[field.attribute], field)
            ELSE field.optional

RequiredSetField(value, field) ==
    CASE value.t = "none" -> TRUE
      [] field.kind = "RepeatField" ->
            \A i \in 1..Len(value.l) : RequiredSetField(value.l[i], field.items)
      [] field.kind = "MapField" ->
            \A k \in DOMAIN value.v : RequiredSetField(value.v[k], field.values)
      [] field.kind = "Field" /\ HasFields(field.type) -> RequiredSet(value)
      [] OTHER -> TRUE

(* C1: for every message m built by field assignments (with its required     *)
(* fields stored), encode(m) succeeds and decode(encode(m), type(m)) is a     *)
(* message equal to m: same type, same stored value for every declared field. *)
C1_RoundTrip ==
    (pc \in {"encoded", "roundtrip"} /\ RequiredSet(msg)) =>
        /\ ~IsRaise(tree)
        /\ pc = "roundtrip" => (~IsRaise(res) /\ PyEq(res, msg))

RECURSIVE LacksRequired(_, _), LacksRequiredField(_, _)
(* The tree has, at the root or at some depth the decoder reaches, an object *)
(* of a message type without a key for one of its required fields.           *)
LacksRequired(instance, cls) ==
    /\ instance.t = "dict"
    /\ HasFields(cls)
    /\ \E i \in 1..Len(Fields(cls)) :
          LET field == Fields(cls)[i]
          IN  IF field.attribute \in DOMAIN instance.v
              THEN LacksRequiredField(instance.v[field.attribute], field)
              ELSE ~field.optional

LacksRequiredField(instance, field) ==
    CASE instance.t = "none" -> FALSE
      [] field.kind = "RepeatField" ->
            /\ instance.t = "list"
            /\ \E i \in 1..Len(instance.l) : LacksRequiredField(instance.l[i], field.items)
      [] field.kind = "MapField" ->
            /\ instance.t = "dict"
            /\ \E k \in DOMAIN instance.v : LacksRequiredField(instance.v[k], field.values)
      [] OTHER -> LacksRequired(instance, field.type)

RootLacksRequired(instance, cls) ==
    \E i \in 1..Len(Fields(cls)) :
        /\ Fields(cls)[i].attribute \notin DOMAIN instance.v
        /\ ~Fields(cls)[i].optional

DecodeFailures == {Raise("ValueError", "_decode"), Raise("ValidationError", "validate")}

(* C2: decoding a tree that lacks the key of a required field, at the root,   *)
(* in a nested message or in an item of a repeated or map field, ends in the  *)
(* decode failure raised where the key is missing; no message is returned.    *)
C2_MissingRequiredFails ==
    (pc = "decoded" /\ LacksRequired(tree, msg.cls)) => res \in DecodeFailures

(* C2 witness: the required key is missing only inside an item of a repeated  *)
(* field, the validator let the tree through, and _decode's failure came out. *)
C2_Witness ==
    /\ pc = "decoded"
    /\ validator = "AcceptAll"
    /\ msg.cls = "Groups"
    /\ "rs" \in DOMAIN tree.v
    /\ "im" \notin DOMAIN tree.v
    /\ ~RootLacksRequired(tree, msg.cls)
    /\ LacksRequired(tree, msg.cls)
    /\ res = Raise("ValueError", "_decode")

(* An int a double holds exactly: below 2^53 all, from there to 2^54 the even ones. *)
Representable(n) == n.hi < HiExact \/ n.lo % 2 = 0

(* out is the double nearest to the int n, 2^53 <= n < 2^54, n odd: one away, *)
(* with an even mantissa.                                                     *)
NearestDouble(out, n) ==
    /\ out.half = 0
    /\ (out.hi - n.hi) * Limb + (out.lo - n.lo) \in {-1, 1}
    /\ (out.lo \div 2) % 2 = 0

RECURSIVE Widened(_, _, _, _), WidenedField(_, _, _, _)
(* The decoded message out against its input: an int for a float-typed field  *)
(* became a float equal to it (exact), or equal to it when a double can hold  *)
(* it and the nearest double otherwise (not exact); everything else is as in  *)
(* the input.                                                                 *)
Widened(instance, out, cls, exact) ==
    /\ out.t = "msg"
    /\ \A i \in 1..Len(Fields(cls)) :
          LET field == Fields(cls)[i]
          IN  field.attribute \in DOMAIN instance.v =>
                /\ field.attribute \in DOMAIN out.v
                /\ WidenedField(instance.v[field.attribute], out.v[field.attribute],
                                field, exact)

WidenedField(instance, out, field, exact) ==
    CASE instance.t = "none" -> out = NoneV
      [] field.kind = "RepeatField" ->
            /\ out.t = "list"
            /\ Len(out.l) = Len(instance.l)
            /\ \A i \in 1..Len(instance.l) :
                  WidenedField(instance.l[i], out.l[i], field.items, exact)
      [] field.kind = "MapField" ->
            /\ out.t = "dict"
            /\ DOMAIN out.v = DOMAIN instance.v
            /\ \A k \in DOMAIN instance.v :
                  WidenedField(instance.v[k], out.v[k], field.values, exact)
      [] field.kind = "ConverterField" -> TRUE
      [] HasFields(field.type) -> Widened(instance, out, field.type, exact)
      [] instance.t = "int" /\ field.type \in FloatTypes ->
            /\ out.t = "float"
            /\ IF exact \/ Representable(instance)
               THEN PyEq(out, instance)
               ELSE NearestDouble(out, instance)
      [] OTHER -> out = instance

(* C3 as stated: every int decoded into a float-typed field (directly, as an  *)
(* item of a repeated field or a value of a map field) is stored as a float   *)
(* equal to that int; all other values are stored unchanged.                  *)
C3_WideningExact ==
    (pc = "decoded" /\ ~IsRaise(res)) => Widened(tree, res, msg.cls, TRUE)

(* C3 amended: the stored float equals the int whenever a double holds the    *)
(* int exactly (every int up to 2^53 in magnitude), and is the nearest double *)
(* otherwise; all other values are stored unchanged.                          *)
C3_WideningRepresentable ==
    (pc = "decoded" /\ ~IsRaise(res)) => Widened(tree, res, msg.cls, FALSE)

(* C3 witness: ints were widened as an item of a repeated field and as a      *)
(* value of a map field.                                                      *)
C3_Witness ==
    /\ pc = "decoded"
    /\ ~IsRaise(res)
    /\ msg.cls = "Floats"
    /\ "xs" \in DOMAIN tree.v /\ "fm" \in DOMAIN tree.v
    /\ tree.v["xs"] = ListV(<<IntV(3), BigOdd>>)
    /\ res.v["xs"] = ListV(<<FloatV(3), FloatV2(HiExact, 0, 0)>>)
    /\ tree.v["fm"] = DictV(Map1("a", IntV(3)))
    /\ res.v["fm"] = DictV(Map1("a", FloatV(3)))

RECURSIVE StripUnknown(_, _), StripUnknownField(_, _)
(* The tree without the keys that are no declared field, at the root and in   *)
(* the nested messages.                                                       *)
StripUnknown(instance, cls) ==
    IF instance.t # "dict" \/ ~HasFields(cls) THEN instance
    ELSE DictV([k \in DOMAIN instance.v \cap FieldNames(cls) |->
                  StripUnknownField(instance.v[k], FieldOf(cls, k))])

StripUnknownField(instance, field) ==
    CASE instance.t = "none" -> instance
      [] field.kind = "RepeatField" /\ instance.t = "list" ->
            ListV([i \in 1..Len(instance.l) |->
                     StripUnknownField(instance.l[i], field.items)])
      [] field.kind = "MapField" /\ instance.t = "dict" ->
            DictV([k \in DOMAIN instance.v |->
                     StripUnknownField(instance.v[k], field.values)])
      [] field.kind \in {"Field", "ConverterField"} ->
            StripUnknown(instance, field.type)
      [] OTHER -> instance

(* C4: decode(x, T) fails exactly when decode(x', T) fails, with the same     *)
(* failure, and otherwise returns an equal message, x' being x without its    *)
(* undeclared keys.                                                           *)
C4_UnknownKeysIgnored ==
    pc = "decoded" =>
        LET stripped == JSON_decode(StripUnknown(tree, msg.cls), msg.cls)
        IN  IF IsRaise(res) THEN stripped = res
            ELSE ~IsRaise(stripped) /\ PyEq(res, stripped)

(* C4 witness: unknown keys at the root and inside a nested message were      *)
(* dropped and the decode succeeded.                                          *)
C4_Witness ==
    /\ pc = "decoded"
    /\ ~IsRaise(res)
    /\ msg.cls = "Nested"
    /\ UnknownKey \in DOMAIN tree.v
    /\ "inner" \in DOMAIN tree.v
    /\ tree.v["inner"].t = "dict"
    /\ UnknownKey \in DOMAIN tree.v["inner"].v
    /\ UnknownKey \notin DOMAIN res.v
    /\ UnknownKey \notin DOMAIN res.v["inner"].v

----------------------------------------------------------------------------
(* Repeated fields: _RepeatValueProxy over the message's stored list.        *)
(* Lists are objects: the message store holds the identity of a list, the    *)
(* heap its contents.                                                        *)

MaxLen == 3
Instances == {1, 2}
ItemValues == {StrV(<<"x">>), StrV(<<"y">>)}
Indexes == -(MaxLen + 1)..(MaxLen + 1)
RepeatName == "names"

(* list.insert(index, value): a negative index counts from the end, an index *)
(* out of range is clamped.                                                  *)
ListInsert(s, index, value) ==
    LET n == Len(s)
        i == IF index < 0 THEN (IF index + n < 0 THEN 0 ELSE index + n)
             ELSE (IF index > n THEN n ELSE index)
    IN  SubSeq(s, 1, i) \o <<value>> \o SubSeq(s, i + 1, n)

ListIndexOk(s, index) == -Len(s) <= index /\ index < Len(s)
ListPos(s, index) == IF index < 0 THEN index + Len(s) + 1 ELSE index + 1

(* del list[index] and list[index] = value, for an index in range.           *)
ListDel(s, index) ==
    SubSeq(s, 1, ListPos(s, index) - 1) \o SubSeq(s, ListPos(s, index) + 1, Len(s))
ListSet(s, index, value) == [s EXCEPT ![ListPos(s, index)] = value]

(* RepeatField.__get__: a new proxy holding the message and the field name.  *)
RepeatField__get__(instance, name) == [message |-> instance, name |-> name]

ProxyHasKey(view) == view.name \in DOMAIN store[view.message]

(* _RepeatValueProxy._sequence: the stored list, or a new empty list.        *)
Proxy_sequence_ref(view) ==
    IF ProxyHasKey(view) THEN store[view.message][view.name] ELSE Len(heap) + 1
Proxy_sequence(view) ==
    IF ProxyHasKey(view) THEN heap[store[view.message][view.name]] ELSE <<>>

(* self.message[self.name] = sequence *)
ProxyWriteBack(view) ==
    [store EXCEPT ![view.message] = MapPut(@, view.name, Proxy_sequence_ref(view))]

HeapPut(ref, contents) ==
    IF ref <= Len(heap) THEN [heap EXCEPT ![ref] = contents] ELSE Append(heap, contents)

(* insert / __delitem__ / __setitem__: the store, the heap and the outcome.  *)
Proxy_insert_NoWriteBack(view, index, value) ==
    [store |-> store,
     heap |-> HeapPut(Proxy_sequence_ref(view),
                      ListInsert(Proxy_sequence(view), index, value)),
     out |-> NoneV]

Proxy_insert(view, index, value) ==
    [store |-> ProxyWriteBack(view),
     heap |-> HeapPut(Proxy_sequence_ref(view),
                      ListInsert(Proxy_sequence(view), index, value)),
     out |-> NoneV]

Proxy__delitem__(view, index) ==
    [store |-> ProxyWriteBack(view),
     heap |-> HeapPut(Proxy_sequence_ref(view),
                      IF ListIndexOk(Proxy_sequence(view), index)
                      THEN ListDel(Proxy_sequence(view), index)
                      ELSE Proxy_sequence(view)),
     out |-> IF ListIndexOk(Proxy_sequence(view), index) THEN NoneV
             ELSE Raise("IndexError", "__delitem__")]

Proxy__setitem__(view, index, value) ==
    [store |-> ProxyWriteBack(view),
     heap |-> HeapPut(Proxy_sequence_ref(view),
                      IF ListIndexOk(Proxy_sequence(view), index)
                      THEN ListSet(Proxy_sequence(view), index, value)
                      ELSE Proxy_sequence(view)),
     out |-> IF ListIndexOk(Proxy_sequence(view), index) THEN NoneV
             ELSE Raise("IndexError", "__setitem__")]

(* The message instance as a value: every stored list by its contents.       *)
InstanceValue(instance) ==
    MsgV("HelloRepeat",
         [k \in DOMAIN store[instance] |-> ListV(heap[store[instance][k]])])

(* Each instance starts with the field never set, or constructed from a list. *)
RepeatInit ==
    /\ pc = "new"
    /\ \E given \in [Instances -> {NoneV, ListV(<<>>), ListV(<<StrV(<<"x">>)>>)}] :
          /\ heap = [i \in Instances |-> IF given[i].t = "list" THEN given[i].l ELSE <<>>]
          /\ store = [i \in Instances |->
                        IF given[i].t = "list" THEN Map1(RepeatName, i) ELSE EmptyMap]
          /\ plain = [i \in Instances |-> IF given[i].t = "list" THEN given[i].l ELSE <<>>]
          /\ touched = {i \in Instances : given[i].t = "list"}
    /\ views = {}
    /\ res = NoneV
    /\ msg = Idle /\ tree = Idle /\ validator = "AcceptAll"
    /\ last = Idle /\ raw = Idle /\ decls = Idle
    /\ descriptor = Idle /\ frames = Idle

(* view = message.names *)
RepeatGetView ==
    /\ \E i \in Instances : views' = views \cup {RepeatField__get__(i, RepeatName)}
    /\ pc' = "view"
    /\ res' = NoneV
    /\ UNCHANGED <<msg, tree, validator, heap, store, plain, touched, last, raw, decls,
                   descriptor, frames>>

RepeatApply(view, result, shadow) ==
    /\ store' = result.store
    /\ heap' = result.heap
    /\ res' = result.out
    /\ plain' = [plain EXCEPT ![view.message] = shadow]
    /\ touched' = touched \cup {view.message}
    /\ pc' = "mutated"
    /\ UNCHANGED <<msg, tree, validator, views, last, raw, decls,
                   descriptor, frames>>

(* view.insert(index, value) *)
RepeatInsert ==
    \E view \in views, index \in Indexes, value \in ItemValues :
        /\ Len(Proxy_sequence(view)) < MaxLen
        /\ RepeatApply(view, Proxy_insert(view, index, value),
                       ListInsert(plain[view.message], index, value))

(* del view[index] *)
RepeatDelete ==
    \E view \in views, index \in Indexes :
        RepeatApply(view, Proxy__delitem__(view, index),
                    IF ListIndexOk(plain[view.message], index)
                    THEN ListDel(plain[view.message], index)
                    ELSE plain[view.message])

(* view[index] = value *)
RepeatSetItem ==
    \E view \in views, index \in Indexes, value \in ItemValues :
        RepeatApply(view, Proxy__setitem__(view, index, value),
                    IF ListIndexOk(plain[view.message], index)
                    THEN ListSet(plain[view.message], index, value)
                    ELSE plain[view.message])

(* list(view), message.get("names"), JSON().encode(message) *)
RepeatRead ==
    /\ \E i \in Instances :
          \/ /\ RepeatField__get__(i, RepeatName) \in views
             /\ res' = [op |-> "view", of |-> i,
                        out |-> ListV(Proxy_sequence(RepeatField__get__(i, RepeatName)))]
          \/ res' = [op |-> "get", of |-> i,
                     out |-> MessageGet(InstanceValue(i), RepeatName)]
          \/ res' = [op |-> "encode", of |-> i,
                     out |-> JSON_encode(InstanceValue(i), "")]
    /\ pc' = "read"
    /\ UNCHANGED <<msg, tree, validator, heap, store, views, plain, touched, last,
                   raw, decls,
                   descriptor, frames>>

RepeatNext == RepeatGetView \/ RepeatInsert \/ RepeatDelete \/ RepeatSetItem \/ RepeatRead

SpecRepeat == RepeatInit /\ [][RepeatNext]_vars

(* C5: once an operation was applied through a view (or the field was given   *)
(* a list), the list stored under the field name holds exactly what the same  *)
(* operations make of a plain list; every view handed out, old or new, reads  *)
(* that sequence, and so do get and encode on the same instance.              *)
C5_LiveView ==
    /\ \A i \in touched :
          /\ RepeatName \in DOMAIN store[i]
          /\ heap[store[i][RepeatName]] = plain[i]
    /\ \A view \in views : Proxy_sequence(view) = plain[view.message]
    /\ pc = "read" =>
          CASE res.op = "view" -> res.out = ListV(plain[res.of])
            [] res.op = "get" ->
                  res.of \in touched => res.out = ListV(plain[res.of])
            [] res.op = "encode" ->
                  res.of \in touched =>
                      res.out = DictV(Map1(RepeatName, ListV(plain[res.of])))

(* C5 witness: an insert through a view of a never-set field, then a delete   *)
(* and a set-at-index, read back through encode.                              *)
C5_Witness ==
    /\ pc = "read"
    /\ res.op = "encode"
    /\ res.of = 1
    /\ plain[1] = <<StrV(<<"y">>), StrV(<<"x">>)>>
    /\ res.out = DictV(Map1(RepeatName, ListV(<<StrV(<<"y">>), StrV(<<"x">>)>>)))
    /\ store[1][RepeatName] > Cardinality(Instances)

----------------------------------------------------------------------------
(* ConverterField get / set (tests/common/test_converters.py) *)

Timestamp(seconds, nanos) ==
    MsgV("Timestamp", Map2("seconds", IntV(seconds), "nanos", IntV(nanos)))

(* The natives assigned, each with the wire value and the native read back   *)
(* that the tests and the converters' definitions give for it.               *)
ConvCases ==
    {[field |-> "c", native |-> StrV(<<"4", "2">>), wire |-> IntV(42),
      back |-> StrV(<<"4", "2">>)],
     [field |-> "c", native |-> StrV(<<"0", "7">>), wire |-> IntV(7),
      back |-> StrV(<<"7">>)],
     [field |-> "c", native |-> StrV(<<"0">>), wire |-> IntV(0),
      back |-> StrV(<<"0">>)],
     [field |-> "c", native |-> StrV(<<"1", "0", "0">>), wire |-> IntV(100),
      back |-> StrV(<<"1", "0", "0">>)],
     [field |-> "d", native |-> DateTimeV(0), wire |-> Timestamp(0, 0),
      back |-> DateTimeV(0)],
     [field |-> "d", native |-> DateTimeV(1000000), wire |-> Timestamp(1, 0),
      back |-> DateTimeV(1000000)],
     [field |-> "d", native |-> DateTimeV(2000005), wire |-> Timestamp(2, 5000),
      back |-> DateTimeV(2000005)],
     [field |-> "d", native |-> DateTimeV(999999), wire |-> Timestamp(0, 999999000),
      back |-> DateTimeV(999999)]}

ConvNatives(name) ==
    {k.native : k \in {j \in ConvCases : j.field = name}}
    \cup (IF name = "c" THEN {StrV(<<"x">>), StrV(<<>>)} ELSE {})

ConvInit ==
    /\ pc = "new"
    /\ msg = MsgV("Conv", EmptyMap)
    /\ last = [name \in FieldNames("Conv") |-> NoneV]
    /\ res = NoneV
    /\ tree = Idle /\ validator = "AcceptAll"
    /\ heap = Idle /\ store = Idle /\ views = Idle /\ plain = Idle
    /\ touched = Idle /\ raw = Idle /\ decls = Idle
    /\ descriptor = Idle /\ frames = Idle

(* message.<name> = native *)
ConvSetAttr ==
    /\ \E name \in FieldNames("Conv") :
         \E native \in ConvNatives(name) :
            LET out == ConverterField__set__(msg, FieldOf("Conv", name), native)
            IN  /\ msg' = IF IsRaise(out) THEN msg ELSE out
                /\ last' = IF IsRaise(out) THEN last ELSE [last EXCEPT ![name] = native]
                /\ res' = IF IsRaise(out) THEN out ELSE NoneV
    /\ pc' = "set"
    /\ UNCHANGED <<tree, validator, heap, store, views, plain, touched, raw, decls,
                   descriptor, frames>>

(* message.get(name) *)
ConvGet ==
    /\ \E name \in FieldNames("Conv") :
          res' = [op |-> "get", of |-> name, out |-> MessageGet(msg, name)]
    /\ pc' = "read"
    /\ UNCHANGED <<msg, tree, validator, heap, store, views, plain, touched, last,
                   raw, decls,
                   descriptor, frames>>

(* message.<name> *)
ConvGetAttr ==
    /\ \E name \in FieldNames("Conv") :
          res' = [op |-> "attr", of |-> name,
                  out |-> ConverterField__get__(msg, FieldOf("Conv", name))]
    /\ pc' = "read"
    /\ UNCHANGED <<msg, tree, validator, heap, store, views, plain, touched, last,
                   raw, decls,
                   descriptor, frames>>

ConvNext == ConvSetAttr \/ ConvGet \/ ConvGetAttr

SpecConv == ConvInit /\ [][ConvNext]_vars

(* What get(name) and the attribute read must give for the field.            *)
ConvExpected(name) ==
    IF last[name] = NoneV
    THEN IF name = "c"
         THEN [wire |-> IntV(0), back |-> StrV(<<"0">>)]
         ELSE [wire |-> MsgV("Timestamp", EmptyMap), back |-> DateTimeV(0)]
    ELSE LET k == CHOOSE j \in ConvCases : j.field = name /\ j.native = last[name]
         IN  [wire |-> k.wire, back |-> k.back]

(* C6: after assignments whose last native value is n the store holds the     *)
(* wire value format(n), get(name) returns it and the attribute read returns  *)
(* resolve(format(n)); a field never assigned is absent from the store, get   *)
(* returns the zero wire value (0, Timestamp()) and the attribute read the    *)
(* native of it ('0', 1970-01-01T00:00:00).                                   *)
C6_ConverterGetSet ==
    \A name \in FieldNames("Conv") :
        LET field == FieldOf("Conv", name)
            want == ConvExpected(name)
        IN  /\ (last[name] = NoneV) <=> (name \notin DOMAIN msg.v)
            /\ last[name] # NoneV =>
                  /\ msg.v[name] = want.wire
                  /\ want.wire = ConverterFormat(field.converter, last[name])
                  /\ want.back = ConverterResolve(field.converter, want.wire)
            /\ MessageGet(msg, name) = want.wire
            /\ ConverterField__get__(msg, field) = want.back
            /\ (pc = "read" /\ res.of = name) =>
                  res.out = IF res.op = "get" THEN want.wire ELSE want.back

(* C6 witness: the datetime field was assigned twice and read back, the       *)
(* string field was never assigned.                                           *)
C6_Witness ==
    /\ pc = "read"
    /\ res = [op |-> "attr", of |-> "d", out |-> DateTimeV(2000005)]
    /\ msg.v["d"] = Timestamp(2, 5000)
    /\ last["c"] = NoneV
    /\ MessageGet(msg, "c") = IntV(0)

----------------------------------------------------------------------------
(* Schema validation (tests/test_validation.py): MessageValidator.validate   *)

MinLength == 3
MaxLength == 5
MaxItemCount == 5
NoBound == -1

Schema(min_length, max_length, min_items, max_items) ==
    [min_length |-> min_length, max_length |-> max_length,
     min_items |-> min_items, max_items |-> max_items]

(* name = Field(str, schema=Schema(min_length=3, max_length=5));             *)
(* names = RepeatField(str, schema=Schema(min_length=3, max_length=5,        *)
(*                                        max_items=5))                      *)
SchemaOf(field) ==
    IF field.kind = "RepeatField"
    THEN Schema(MinLength, MaxLength, NoBound, MaxItemCount)
    ELSE Schema(MinLength, MaxLength, NoBound, NoBound)

Key(name) == [key |-> name]
Index(i) == [index |-> i]

ValidationError(description, path) ==
    [t |-> "raise", exc |-> "ValidationError", description |-> description,
     path |-> path]

IsTooShort == <<" ", "i", "s", " ", "t", "o", "o", " ", "s", "h", "o", "r", "t">>
IsTooLong == <<" ", "i", "s", " ", "t", "o", "o", " ", "l", "o", "n", "g">>

(* repr() of a str without quotes or escapes in it, and of a list of them.   *)
RECURSIVE ReprItems(_)
ReprItems(items) ==
    IF items = <<>> THEN <<>>
    ELSE IF Len(items) = 1 THEN <<"'">> \o items[1].s \o <<"'">>
    ELSE <<"'">> \o items[1].s \o <<"'", ",", " ">> \o ReprItems(Tail(items))

PyRepr(value) ==
    IF value.t = "list" THEN <<"[">> \o ReprItems(value.l) \o <<"]">>
    ELSE <<"'">> \o value.s \o <<"'">>

(* The length bounds of one str value. *)
ValidateLength(value, schema, path) ==
    IF schema.min_length # NoBound /\ Len(value.s) < schema.min_length
    THEN ValidationError(PyRepr(value) \o IsTooShort, path)
    ELSE IF schema.max_length # NoBound /\ Len(value.s) > schema.max_length
    THEN ValidationError(PyRepr(value) \o IsTooLong, path)
    ELSE NoneV

(* The items of a repeated field in order, the index appended to the path.   *)
RECURSIVE ValidateItems(_, _, _, _)
ValidateItems(items, i, schema, path) ==
    IF i > Len(items) THEN NoneV
    ELSE LET out == ValidateLength(items[i], schema, Append(path, Index(i - 1)))
         IN  IF IsRaise(out) THEN out ELSE ValidateItems(items, i + 1, schema, path)

(* The items before the count: a variant that reports an item of a list that *)
(* is itself too long.                                                       *)
ValidateRepeat_ItemsFirst(value, schema, path) ==
    IF IsRaise(ValidateItems(value.l, 1, schema, path))
    THEN ValidateItems(value.l, 1, schema, path)
    ELSE IF schema.max_items # NoBound /\ Len(value.l) > schema.max_items
    THEN ValidationError(PyRepr(value) \o IsTooLong, path)
    ELSE NoneV

(* A repeated field: the item count, then the items.                         *)
ValidateRepeat(value, schema, path) ==
    IF schema.max_items # NoBound /\ Len(value.l) > schema.max_items
    THEN ValidationError(PyRepr(value) \o IsTooLong, path)
    ELSE IF schema.min_items # NoBound /\ Len(value.l) < schema.min_items
    THEN ValidationError(PyRepr(value) \o IsTooShort, path)
    ELSE ValidateItems(value.l, 1, schema, path)

(* A scalar bound check that is off by one at the lower bound.               *)
ValidateField_StrictMin(value, field) ==
    IF field.kind = "RepeatField"
    THEN ValidateRepeat(value, SchemaOf(field), <<Key(field.attribute)>>)
    ELSE ValidateLength(value, Schema(MinLength + 1, MaxLength, NoBound, NoBound),
                        <<Key(field.attribute)>>)

ValidateField(value, field) ==
    IF field.kind = "RepeatField"
    THEN ValidateRepeat(value, SchemaOf(field), <<Key(field.attribute)>>)
    ELSE ValidateLength(value, SchemaOf(field), <<Key(field.attribute)>>)

(* The fields in declaration order; the first failure is raised.             *)
RECURSIVE ValidateFields(_, _)
ValidateFields(message, i) ==
    IF i > Len(Fields(message.cls)) THEN NoneV
    ELSE LET field == Fields(message.cls)[i]
             out == IF field.attribute \in DOMAIN message.v
                    THEN ValidateField(message.v[field.attribute], field)
                    ELSE NoneV
         IN  IF IsRaise(out) THEN out ELSE ValidateFields(message, i + 1)

MessageValidator_validate(message) == ValidateFields(message, 1)

MaxListLen == 6
NameLengths == {0, 1, MinLength - 1, MinLength, MaxLength - 1, MaxLength, MaxLength + 1, 10}
ItemLengths == {1, MinLength, 10}

RECURSIVE Xs(_)
Xs(n) == IF n = 0 THEN <<>> ELSE Append(Xs(n - 1), "x")

ValidatedClasses == {"HelloRequest", "HelloRepeat", "HelloBoth"}

(* HelloRequest('x' * k), HelloRequest([]) *)
ValidateInit ==
    /\ pc = "new"
    /\ \E cls \in ValidatedClasses, k \in NameLengths :
          msg = MsgV(cls, [a \in FieldNames(cls) |->
                             IF a = "name" THEN StrV(Xs(k)) ELSE ListV(<<>>)])
    /\ tree = NoneV
    /\ res = NoneV
    /\ validator = "AcceptAll"
    /\ heap = Idle /\ store = Idle /\ views = Idle /\ plain = Idle
    /\ touched = Idle /\ last = Idle /\ raw = Idle /\ decls = Idle
    /\ descriptor = Idle /\ frames = Idle

(* message.names.append('x' * k) *)
ValidateAppend ==
    /\ "names" \in DOMAIN msg.v
    /\ Len(msg.v["names"].l) < MaxListLen
    /\ \E k \in ItemLengths :
          msg' = MsgV(msg.cls,
                      MapPut(msg.v, "names",
                             ListV(ListInsert(msg.v["names"].l, Len(msg.v["names"].l),
                                              StrV(Xs(k))))))
    /\ pc' = "set"
    /\ res' = NoneV
    /\ UNCHANGED <<tree, validator, heap, store, views, plain, touched, last, raw, decls,
                   descriptor, frames>>

(* MessageValidator(cls).validate(message); tree keeps the message as it was *)
(* when validate was called.                                                 *)
ValidateCall ==
    /\ pc \in {"new", "set"}
    /\ res' = MessageValidator_validate(msg)
    /\ tree' = msg
    /\ msg' = msg
    /\ pc' = "validated"
    /\ UNCHANGED <<validator, heap, store, views, plain, touched, last, raw, decls,
                   descriptor, frames>>

ValidateNext == ValidateAppend \/ ValidateCall

SpecValidate == ValidateInit /\ [][ValidateNext]_vars

(* C7: a name shorter than min_length fails with "'<v>' is too short" at path *)
(* [name], one longer than max_length with "'<v>' is too long" at the same    *)
(* path, a length within the bounds raises nothing (no other field failing),  *)
(* and the message holds the values it held before the call.                  *)
C7_StringBounds ==
    (pc = "validated" /\ "name" \in DOMAIN msg.v) =>
        LET v == msg.v["name"].s
        IN  /\ msg = tree
            /\ Len(v) < MinLength =>
                  res = ValidationError(<<"'">> \o v \o <<"'">> \o IsTooShort,
                                        <<Key("name")>>)
            /\ Len(v) > MaxLength =>
                  res = ValidationError(<<"'">> \o v \o <<"'">> \o IsTooLong,
                                        <<Key("name")>>)
            /\ (Len(v) >= MinLength /\ Len(v) <= MaxLength /\ msg.cls = "HelloRequest")
                  => res = NoneV

(* C7 witness: the tests' cases 'x' (too short) and a name of max_length.     *)
C7_Witness ==
    /\ pc = "validated"
    /\ msg.cls = "HelloRequest"
    /\ msg.v["name"] = StrV(<<"x">>)
    /\ res = ValidationError(<<"'", "x", "'">> \o IsTooShort, <<Key("name")>>)

BadItems(items) ==
    {i \in 1..Len(items) : Len(items[i].s) < MinLength \/ Len(items[i].s) > MaxLength}

NameOk(message) ==
    "name" \in DOMAIN message.v =>
        (Len(message.v["name"].s) >= MinLength /\ Len(message.v["name"].s) <= MaxLength)

(* C8: exactly one failure, the first in declaration order (the name before   *)
(* the names), the list before its items, the items in index order: a list    *)
(* of more than max_items items fails at [names] with "<repr> is too long";   *)
(* otherwise the lowest-index item out of bounds fails at [names, i] with its *)
(* own message; a list without violation passes.                              *)
C8_FirstViolation ==
    (pc = "validated" /\ "names" \in DOMAIN msg.v) =>
        LET items == msg.v["names"].l
            first == SetMin(BadItems(items))
        IN  IF ~NameOk(msg) THEN IsRaise(res) /\ res.path = <<Key("name")>>
            ELSE IF Len(items) > MaxItemCount
            THEN res = ValidationError(PyRepr(ListV(items)) \o IsTooLong,
                                       <<Key("names")>>)
            ELSE IF BadItems(items) # {}
            THEN res = ValidationError(
                          <<"'">> \o items[first].s \o <<"'">>
                          \o (IF Len(items[first].s) < MinLength
                              THEN IsTooShort ELSE IsTooLong),
                          <<Key("names"), Index(first - 1)>>)
            ELSE res = NoneV

(* C8 witness: the tests' case ['xxx', 'x' * 10], failing at [names, 1].      *)
C8_Witness ==
    /\ pc = "validated"
    /\ msg.cls = "HelloRepeat"
    /\ msg.v["names"] = ListV(<<StrV(Xs(3)), StrV(Xs(10))>>)
    /\ res = ValidationError(<<"'">> \o Xs(10) \o <<"'">> \o IsTooLong,
                             <<Key("names"), Index(1)>>)

----------------------------------------------------------------------------
(* unpack: bytes -> text -> value tree -> message.  A buffer is a sequence   *)
(* of byte groups: the JSON punctuation, the number 1, the string "n", and a *)
(* byte that is no UTF-8.                                                    *)

MaxRaw == 5
QuotedN == "\"n\""
BadByte == "0xFF"
ByteGroups == {"{", "}", ":", "1", QuotedN, BadByte}

(* value.decode('utf-8') *)
BytesDecode(value) ==
    IF \E i \in 1..Len(value) : value[i] = BadByte
    THEN Raise("UnicodeDecodeError", "bytes.decode")
    ELSE StrV(value)

(* ujson.loads on the JSON subset: 1, "n", {}, {"n": value}.                 *)
RECURSIVE UjsonLoads(_)
UjsonLoads(text) ==
    CASE text = <<"1">> -> IntV(1)
      [] text = <<QuotedN>> -> StrV(<<"n">>)
      [] text = <<"{", "}">> -> DictV(EmptyMap)
      [] Len(text) >= 5 /\ text[1] = "{" /\ text[2] = QuotedN /\ text[3] = ":"
         /\ text[Len(text)] = "}" ->
            LET inner == UjsonLoads(SubSeq(text, 4, Len(text) - 1))
            IN  IF IsRaise(inner) THEN inner ELSE DictV(Map1("n", inner))
      [] OTHER -> Raise("ValueError", "ujson.loads")

(* JSON.unpack: self.decode(ujson.loads(value.decode('utf-8')), cls=fmt)     *)
JSON_unpack(fmt, value) ==
    IF IsRaise(BytesDecode(value)) THEN BytesDecode(value)
    ELSE IF IsRaise(UjsonLoads(BytesDecode(value).s))
    THEN UjsonLoads(BytesDecode(value).s)
    ELSE JSON_decode(UjsonLoads(BytesDecode(value).s), fmt)

UnpackInit ==
    /\ pc = "new"
    /\ raw = <<>>
    /\ validator \in Validators
    /\ res = NoneV
    /\ msg = Idle /\ tree = Idle
    /\ heap = Idle /\ store = Idle /\ views = Idle /\ plain = Idle
    /\ touched = Idle /\ last = Idle /\ decls = Idle
    /\ descriptor = Idle /\ frames = Idle

(* The caller's buffer grows by one byte group. *)
UnpackReceive ==
    /\ pc = "new"
    /\ Len(raw) < MaxRaw
    /\ \E b \in ByteGroups : raw' = Append(raw, b)
    /\ UNCHANGED <<pc, msg, tree, res, validator, heap, store, views, plain, touched,
                   last, decls,
                   descriptor, frames>>

(* JSON().unpack(Point, raw) *)
UnpackCall ==
    /\ pc = "new"
    /\ res' = JSON_unpack("Point", raw)
    /\ pc' = "unpacked"
    /\ UNCHANGED <<msg, tree, validator, heap, store, views, plain, touched, last,
                   raw, decls,
                   descriptor, frames>>

UnpackNext == UnpackReceive \/ UnpackCall

SpecUnpack == UnpackInit /\ [][UnpackNext]_vars

Malformed(value) ==
    IsRaise(BytesDecode(value)) \/ IsRaise(UjsonLoads(BytesDecode(value).s))

(* C9: unpack of bytes that are no well-formed UTF-8 JSON text fails with the *)
(* codec's own failure; the exception of the JSON parser or of the byte       *)
(* decoder is never what the caller gets, and no message is returned.         *)
C9_MalformedIsCodecFailure ==
    (pc = "unpacked" /\ Malformed(raw)) =>
        /\ IsRaise(res)
        /\ res.by \notin {"ujson.loads", "bytes.decode"}

----------------------------------------------------------------------------
(* The Repeat / Map helpers (venom/fields.py).  An argument is a class, a    *)
(* descriptor instance or a qualified-name string.                           *)

ClassX(name) == [t |-> "class", name |-> name]
NameX(qualname) == [t |-> "str", s |-> qualname]

FieldSubclasses ==
    {"Field", "ConverterField", "String", "Bytes", "Bool", "Int32", "Int64", "Float32",
     "Float64"}

SubclassType(name) ==
    CASE name = "String" -> "str"
      [] name = "Bytes" -> "bytes"
      [] name = "Bool" -> "bool"
      [] name \in {"Int32", "Int64"} -> "int"
      [] OTHER -> "float"

(* Field(type_) and the no-argument constructors of its subclasses.          *)
NewField(cls, type) == [t |-> "instance", kind |-> "Field", cls |-> cls, type |-> type]
NewRepeatField(items, name) ==
    [t |-> "instance", kind |-> "RepeatField", items |-> items, name |-> name]
NewMapField(values, name) ==
    [t |-> "instance", kind |-> "MapField", keys |-> NewField("String", ClassX("str")),
     values |-> values, name |-> name]

(* items(): Field() lacks its type_ argument, ConverterField() its converter. *)
Instantiate(x) ==
    CASE x.name = "Field" -> Raise("TypeError", "Field.__init__")
      [] x.name = "ConverterField" -> Raise("AttributeError", "ConverterField.__init__")
      [] OTHER -> NewField(x.name, ClassX(SubclassType(x.name)))

Normalize(x) ==
    LET items == IF x.t = "class" /\ x.name \in FieldSubclasses THEN Instantiate(x) ELSE x
    IN  IF IsRaise(items) THEN items
        ELSE IF items.t # "instance" THEN NewField("Field", items)
        ELSE items

Repeat(items, name) ==
    IF IsRaise(Normalize(items)) THEN Normalize(items)
    ELSE NewRepeatField(Normalize(items), name)

Map(values, name) == NewMapField(values, name)

MaxDecls == 2

BaseArguments ==
    {ClassX("String"), ClassX("Float64"), ClassX("Field"), ClassX("ConverterField"),
     ClassX("str"),
     ClassX("Inner"), NameX("venom.rpc.reflect.openapi.SchemaMessage"),
     NewField("Field", ClassX("int")), NewField("Int64", ClassX("int"))}

(* The arguments on offer: the base ones and the descriptors built so far.   *)
Arguments ==
    BaseArguments \cup {decls[i].out : i \in {j \in DOMAIN decls : ~IsRaise(decls[j].out)}}

HelpersInit ==
    /\ pc = "new"
    /\ decls = <<>>
    /\ descriptor = Idle /\ frames = Idle
    /\ res = NoneV
    /\ msg = Idle /\ tree = Idle /\ validator = "AcceptAll"
    /\ heap = Idle /\ store = Idle /\ views = Idle /\ plain = Idle
    /\ touched = Idle /\ last = Idle /\ raw = Idle

(* field = Repeat(x, name=...) *)
HelpersRepeat ==
    /\ Len(decls) < MaxDecls
    /\ \E x \in Arguments, name \in {"", "tags"} :
          decls' = Append(decls, [helper |-> "Repeat", x |-> x, name |-> name,
                                  out |-> Repeat(x, name)])
    /\ pc' = "declared"
    /\ UNCHANGED <<msg, tree, res, validator, heap, store, views, plain, touched, last,
                   raw,
                   descriptor, frames>>

(* field = Map(x, name=...) *)
HelpersMap ==
    /\ Len(decls) < MaxDecls
    /\ \E x \in Arguments, name \in {"", "tags"} :
          decls' = Append(decls, [helper |-> "Map", x |-> x, name |-> name,
                                  out |-> Map(x, name)])
    /\ pc' = "declared"
    /\ UNCHANGED <<msg, tree, res, validator, heap, store, views, plain, touched, last,
                   raw,
                   descriptor, frames>>

HelpersNext == HelpersRepeat \/ HelpersMap

SpecHelpers == HelpersInit /\ [][HelpersNext]_vars

(* C10: Map(x) normalizes x as Repeat(x) does: where Repeat(x) raises, Map(x) *)
(* raises; otherwise the MapField's values is a Field / MapField /            *)
(* RepeatField instance, the one Repeat(x) has as its items.                  *)
C10_MapNormalizesLikeRepeat ==
    \A i \in DOMAIN decls :
        decls[i].helper = "Map" =>
            IF IsRaise(Repeat(decls[i].x, decls[i].name))
            THEN IsRaise(decls[i].out)
            ELSE /\ ~IsRaise(decls[i].out)
                 /\ decls[i].out.values.t = "instance"
                 /\ decls[i].out.values = Repeat(decls[i].x, decls[i].name).items

----------------------------------------------------------------------------
(* Field.type: a cached_property resolved on first use, read by threads that *)
(* share the Field instance.  A qualified name is the sequence of its        *)
(* dot-separated parts.                                                      *)

MaxThreads == 2
MaxReads == 2
Threads == 1..MaxThreads

QualName(parts) == [t |-> "str", parts |-> parts]
TypeIn(module, name) == [t |-> "class", module |-> module, name |-> name]

(* What the interpreter can import, and the classes each module defines.     *)
Modules == {<<"venom", "common">>, <<"venom", "message">>}
ModuleAttrs(module) ==
    IF module = <<"venom", "common">> THEN {"Timestamp", "Message"} ELSE {"Message"}

(* The _type a Field is constructed with. *)
DeclaredTypes ==
    {ClassX("int"),
     QualName(<<"venom", "common", "Timestamp">>),
     QualName(<<"venom", "message", "Message">>),
     QualName(<<"venom", "message", "Timestamp">>),
     QualName(<<"venom", "missing", "Message">>),
     QualName(<<"venom", "common", "">>),
     QualName(<<"Timestamp">>)}

(* '.' in self._type; self._type.rsplit('.', 1) *)
HasDot(parts) == Len(parts) > 1
RSplit(parts) ==
    [module_name |-> SubSeq(parts, 1, Len(parts) - 1), class_name |-> parts[Len(parts)]]

NoFrame == [at |-> "none"]

(* Lines 72-74 and 78-79: the declared type itself, the split name, or the   *)
(* RuntimeError for a string without a module part.  The variant returns the *)
(* unresolved string instead of raising.                                     *)
Field_type_enter_NoRaise(type) ==
    IF type.t = "str"
    THEN IF HasDot(type.parts)
         THEN [at |-> "import", module_name |-> RSplit(type.parts).module_name,
               class_name |-> RSplit(type.parts).class_name]
         ELSE [at |-> "store", value |-> type]
    ELSE [at |-> "store", value |-> type]

Field_type_enter(type) ==
    IF type.t = "str"
    THEN IF HasDot(type.parts)
         THEN [at |-> "import", module_name |-> RSplit(type.parts).module_name,
               class_name |-> RSplit(type.parts).class_name]
         ELSE [at |-> "raise", value |-> Raise("RuntimeError", "Field.type")]
    ELSE [at |-> "store", value |-> type]

(* module = import_module(module_name) *)
ImportModule(frame) ==
    IF frame.module_name \in Modules
    THEN [at |-> "getattr", module |-> frame.module_name, class_name |-> frame.class_name]
    ELSE [at |-> "raise", value |-> Raise("ModuleNotFoundError", "import_module")]

(* return getattr(module, class_name) *)
GetAttr(frame) ==
    IF frame.class_name \in ModuleAttrs(frame.module)
    THEN [at |-> "store", value |-> TypeIn(frame.module, frame.class_name)]
    ELSE [at |-> "raise", value |-> Raise("AttributeError", "getattr")]

(* Field.type run to its end by one caller. *)
Field_type(type) ==
    LET entered == Field_type_enter(type)
        imported == IF entered.at = "import" THEN ImportModule(entered) ELSE entered
        got == IF imported.at = "getattr" THEN GetAttr(imported) ELSE imported
    IN  got.value

(* cached_property: the value is kept in the instance's __dict__ under the   *)
(* property's name, where attribute lookup finds it before the descriptor.   *)
IsCached(instance) == "type" \in DOMAIN instance.dict
CacheStore(instance, value) == [instance EXCEPT !.dict = MapPut(@, "type", value)]

Returned(t, value) == [res EXCEPT ![t] = Append(@, value)]

TypeInit ==
    /\ \E type \in DeclaredTypes : descriptor = [type |-> type, dict |-> EmptyMap]
    /\ pc = [t \in Threads |-> "idle"]
    /\ frames = [t \in Threads |-> NoFrame]
    /\ res = [t \in Threads |-> <<>>]
    /\ msg = Idle /\ tree = Idle /\ validator = "AcceptAll"
    /\ heap = Idle /\ store = Idle /\ views = Idle /\ plain = Idle
    /\ touched = Idle /\ last = Idle /\ raw = Idle /\ decls = Idle

TypeFrame(t, frame) ==
    /\ frames' = [frames EXCEPT ![t] = IF frame.at = "raise" THEN NoFrame ELSE frame]
    /\ pc' = [pc EXCEPT ![t] = IF frame.at = "raise" THEN "idle" ELSE frame.at]
    /\ res' = IF frame.at = "raise" THEN Returned(t, frame.value) ELSE res

(* field.type: the attribute lookup.  A cached value is returned at once;    *)
(* otherwise the property's function is called.                              *)
TypeLookup(t) ==
    /\ pc[t] = "idle"
    /\ Len(res[t]) < MaxReads
    /\ IF IsCached(descriptor)
       THEN /\ res' = Returned(t, descriptor.dict["type"])
            /\ UNCHANGED <<pc, frames>>
       ELSE /\ pc' = [pc EXCEPT ![t] = "call"]
            /\ UNCHANGED <<res, frames>>
    /\ UNCHANGED <<msg, tree, validator, heap, store, views, plain, touched, last, raw,
                   decls, descriptor>>

TypeEnter(t) ==
    /\ pc[t] = "call"
    /\ TypeFrame(t, Field_type_enter(descriptor.type))
    /\ UNCHANGED <<msg, tree, validator, heap, store, views, plain, touched, last, raw,
                   decls, descriptor>>

TypeImport(t) ==
    /\ pc[t] = "import"
    /\ TypeFrame(t, ImportModule(frames[t]))
    /\ UNCHANGED <<msg, tree, validator, heap, store, views, plain, touched, last, raw,
                   decls, descriptor>>

TypeGetAttr(t) ==
    /\ pc[t] = "getattr"
    /\ TypeFrame(t, GetAttr(frames[t]))
    /\ UNCHANGED <<msg, tree, validator, heap, store, views, plain, touched, last, raw,
                   decls, descriptor>>

(* The function returned: cached_property stores its value ...               *)
TypeStore(t) ==
    /\ pc[t] = "store"
    /\ descriptor' = CacheStore(descriptor, frames[t].value)
    /\ pc' = [pc EXCEPT ![t] = "return"]
    /\ UNCHANGED <<msg, tree, res, validator, heap, store, views, plain, touched, last,
                   raw, decls, frames>>

(* ... and hands it to the caller. *)
TypeReturn(t) ==
    /\ pc[t] = "return"
    /\ res' = Returned(t, frames[t].value)
    /\ pc' = [pc EXCEPT ![t] = "idle"]
    /\ frames' = [frames EXCEPT ![t] = NoFrame]
    /\ UNCHANGED <<msg, tree, validator, heap, store, views, plain, touched, last, raw,
                   decls, descriptor>>

TypeNext ==
    \E t \in Threads :
        \/ TypeLookup(t)
        \/ TypeEnter(t)
        \/ TypeImport(t)
        \/ TypeGetAttr(t)
        \/ TypeStore(t)
        \/ TypeReturn(t)

SpecType == TypeInit /\ [][TypeNext]_vars

(* C11: under every interleaving, every read of every thread gives what one  *)
(* resolution of the declared type gives (the same type, or the same         *)
(* failure); a cache that was written holds that type and nothing else; and  *)
(* a string without a module part fails every read with the resolution       *)
(* failure and leaves the cache empty.                                       *)
C11_TypeRaceSafe ==
    /\ \A t \in Threads : \A i \in DOMAIN res[t] : res[t][i] = Field_type(descriptor.type)
    /\ IsCached(descriptor) =>
          /\ ~IsRaise(Field_type(descriptor.type))
          /\ descriptor.dict["type"] = Field_type(descriptor.type)
    /\ (descriptor.type.t = "str" /\ ~HasDot(descriptor.type.parts)) =>
          /\ ~IsCached(descriptor)
          /\ \A t \in Threads : \A i \in DOMAIN res[t] :
                res[t][i] = Raise("RuntimeError", "Field.type")

(* C11 witness: thread 2 found the cache empty and has resolved the name but  *)
(* not yet stored it, while thread 1 resolved and stored it as well, returned *)
(* and read the cache a second time; thread 2 is about to write the cache     *)
(* again.                                                                     *)
C11_Witness ==
    /\ descriptor.type = QualName(<<"venom", "common", "Timestamp">>)
    /\ pc[2] = "store"
    /\ frames[2].value = TypeIn(<<"venom", "common">>, "Timestamp")
    /\ pc[1] = "idle"
    /\ IsCached(descriptor)
    /\ res[1] = <<TypeIn(<<"venom", "common">>, "Timestamp"),
                  TypeIn(<<"venom", "common">>, "Timestamp")>>

----------------------------------------------------------------------------
(* Reads and writes of one message: the plain fields of a Scalars instance   *)
(* (msg) and the repeated field of a HelloRepeat instance (store, heap).     *)
(* Every operation gives its outcome together with the store it leaves.      *)

MaxStored == 2
Reader == 1

(* FieldDescriptor.__get__ (lines 23-26): instance[self.name], else          *)
(* self.default(); nothing is assigned.                                      *)
AttrRead(instance, field) ==
    [instance |-> instance, out |-> FieldDescriptor__get__(instance, field)]

(* __len__ that keeps the list it was given (a setdefault-like _sequence).   *)
Proxy__len__WriteBack(view) ==
    [store |-> ProxyWriteBack(view),
     heap |-> HeapPut(Proxy_sequence_ref(view), Proxy_sequence(view)),
     out |-> IntV(Len(Proxy_sequence(view)))]

(* len(self._sequence) *)
Proxy__len__(view) ==
    [store |-> store, heap |-> heap, out |-> IntV(Len(Proxy_sequence(view)))]

(* self._sequence[index] *)
Proxy__getitem__(view, index) ==
    [store |-> store, heap |-> heap,
     out |-> IF ListIndexOk(Proxy_sequence(view), index)
             THEN Proxy_sequence(view)[ListPos(Proxy_sequence(view), index)]
             ELSE Raise("IndexError", "__getitem__")]

(* iter(self._sequence), run to its end *)
Proxy__iter__(view) ==
    [store |-> store, heap |-> heap, out |-> ListV(Proxy_sequence(view))]

ReadsInit ==
    /\ pc = "new"
    /\ msg = MsgV("Scalars", EmptyMap)
    /\ store = [i \in {Reader} |-> EmptyMap]
    /\ heap = <<>>
    /\ views = {}
    /\ res = NoneV
    /\ tree = Idle /\ validator = "AcceptAll" /\ plain = Idle
    /\ touched = Idle /\ last = Idle /\ raw = Idle /\ decls = Idle
    /\ descriptor = Idle /\ frames = Idle

(* message.<name> = value *)
ReadsSetAttr ==
    /\ \E i \in DOMAIN Fields("Scalars") :
         \E value \in ScalarsOf(Fields("Scalars")[i].type, "msg") :
            msg' = SetAttr(msg, Fields("Scalars")[i], value)
    /\ pc' = "set"
    /\ res' = NoneV
    /\ UNCHANGED <<tree, validator, heap, store, views, plain, touched, last, raw, decls,
                   descriptor, frames>>

(* message.<name> *)
ReadsGetAttr ==
    /\ \E i \in DOMAIN Fields("Scalars") :
          LET r == AttrRead(msg, Fields("Scalars")[i])
          IN  /\ msg' = r.instance
              /\ res' = [op |-> "attr", of |-> Fields("Scalars")[i].attribute,
                         out |-> r.out]
    /\ pc' = "read"
    /\ UNCHANGED <<tree, validator, heap, store, views, plain, touched, last, raw, decls,
                   descriptor, frames>>

(* view = message.names *)
ReadsGetView ==
    /\ views' = views \cup {RepeatField__get__(Reader, RepeatName)}
    /\ pc' = "view"
    /\ res' = NoneV
    /\ UNCHANGED <<msg, tree, validator, heap, store, plain, touched, last, raw, decls,
                   descriptor, frames>>

ReadsApply(op, result, position) ==
    /\ store' = result.store
    /\ heap' = result.heap
    /\ res' = [op |-> op, of |-> RepeatName, out |-> result.out]
    /\ pc' = position
    /\ UNCHANGED <<msg, tree, validator, views, plain, touched, last, raw, decls,
                   descriptor, frames>>

(* len(view) *)
ReadsLen == \E view \in views : ReadsApply("len", Proxy__len__(view), "read")

(* view[index] *)
ReadsGetItem ==
    \E view \in views, index \in -MaxStored..MaxStored :
        ReadsApply("getitem", Proxy__getitem__(view, index), "read")

(* list(view) *)
ReadsIter == \E view \in views : ReadsApply("iter", Proxy__iter__(view), "read")

(* view.insert(index, value) *)
ReadsInsert ==
    \E view \in views, index \in -MaxStored..MaxStored, value \in ItemValues :
        /\ Len(Proxy_sequence(view)) < MaxStored
        /\ ReadsApply("insert", Proxy_insert(view, index, value), "mutated")

(* del view[index] *)
ReadsDelete ==
    \E view \in views, index \in -MaxStored..MaxStored :
        ReadsApply("delete", Proxy__delitem__(view, index), "mutated")

(* view[index] = value *)
ReadsSetItem ==
    \E view \in views, index \in -MaxStored..MaxStored, value \in ItemValues :
        ReadsApply("setitem", Proxy__setitem__(view, index, value), "mutated")

(* JSON().encode(message), for both instances *)
ReadsEncode ==
    /\ res' = [op |-> "encode", of |-> "",
               out |-> <<JSON_encode(msg, ""), JSON_encode(InstanceValue(Reader), "")>>]
    /\ pc' = "read"
    /\ UNCHANGED <<msg, tree, validator, heap, store, views, plain, touched, last, raw,
                   decls, descriptor, frames>>

ReadsNext ==
    \/ ReadsSetAttr
    \/ ReadsGetAttr
    \/ ReadsGetView
    \/ ReadsLen
    \/ ReadsGetItem
    \/ ReadsIter
    \/ ReadsInsert
    \/ ReadsDelete
    \/ ReadsSetItem
    \/ ReadsEncode

SpecReads == ReadsInit /\ [][ReadsNext]_vars

Unset == RepeatName \notin DOMAIN store[Reader]

(* What a read gave, in the state it left. *)
ReadResults ==
    pc = "read" =>
        CASE res.op = "attr" ->
                res.of \notin DOMAIN msg.v =>
                    res.out = TypeZero(FieldOf("Scalars", res.of).type)
          [] res.op = "len" -> Unset => res.out = IntV(0)
          [] res.op = "getitem" -> Unset => res.out = Raise("IndexError", "__getitem__")
          [] res.op = "iter" -> Unset => res.out = ListV(<<>>)
          [] res.op = "encode" ->
                /\ ~IsRaise(res.out[1]) /\ DOMAIN res.out[1].v = DOMAIN msg.v
                /\ ~IsRaise(res.out[2]) /\ DOMAIN res.out[2].v = DOMAIN store[Reader]

(* What a step may change. *)
ReadFrame ==
    /\ pc' \in {"read", "view"} => (msg' = msg /\ store' = store /\ heap' = heap)
    /\ msg' # msg => pc' = "set"
    /\ (store' # store \/ heap' # heap) => pc' = "mutated"

(* C12: reads never write.  An attribute read of an unset plain field gives   *)
(* the field's default, and len / index / iteration through the view of an    *)
(* unset repeated field behave as on an empty sequence; a read or the taking  *)
(* of a view leaves the stored keys and values as they were, so encode omits  *)
(* the names still absent; only attribute assignment and the view's insert /  *)
(* delete / set-at-index change the store.                                    *)
C12_ReadsNeverWrite == [](ReadResults) /\ [][ReadFrame]_vars

(* C12 witness: with id assigned and s never assigned, the view of the        *)
(* never-set repeated field was iterated; the field is still absent and the   *)
(* encoded trees omit s and names.                                            *)
C12_Witness ==
    /\ pc = "read"
    /\ res.op = "iter"
    /\ res.out = ListV(<<>>)
    /\ Unset
    /\ DOMAIN msg.v = {"id"}
    /\ AttrRead(msg, FieldOf("Scalars", "s")).out = StrV(<<>>)
    /\ JSON_encode(msg, "") = DictV(Map1("id", IntV(3)))
    /\ JSON_encode(InstanceValue(Reader), "") = DictV(EmptyMap)

----------------------------------------------------------------------------
(* The whole library: each behaviour exercises one of its parts.             *)

Init ==
    \/ CodecInit
    \/ RepeatInit
    \/ ConvInit
    \/ ValidateInit
    \/ UnpackInit
    \/ HelpersInit
    \/ TypeInit
    \/ ReadsInit

Next ==
    \/ CodecNext
    \/ RepeatNext
    \/ ConvNext
    \/ ValidateNext
    \/ UnpackNext
    \/ HelpersNext
    \/ TypeNext
    \/ ReadsNext

Spec == Init /\ [][Next]_vars

====
